---- MODULE Spec2Model ----
(***************************************************************************)
(* MediaMix Hub (src/frontend/app.js): the mock backend (MockBackendAPI)    *)
(* over localStorage, and the gallery handlers that drive it.              *)
(*                                                                         *)
(* Representation                                                          *)
(*   - A description is a run-length string: a sequence of runs            *)
(*     [c |-> character, n |-> repetitions], so that a text of 500 or 501  *)
(*     characters is one or two runs.  Other strings are TLA+ strings.     *)
(*   - A MIME type "image/png" is [major |-> "image", sub |-> "png"].      *)
(*   - A localStorage value is [kind |-> "absent"] (getItem gives null),   *)
(*     [kind |-> "unreadable"] (getItem throws) or                         *)
(*     [kind |-> "string", text |-> t], where t is a JSON text: a tree     *)
(*     [j |-> "obj", members |-> <<<<key, tree>>, ...>>],                  *)
(*     [j |-> "arr", elems |-> <<tree, ...>>], [j |-> "val", v |-> x],     *)
(*     [j |-> "null"], the empty text [j |-> "empty"], or a text that is   *)
(*     no JSON, [j |-> "bad"].                                             *)
(*   - An id is the pair <<timestamp, random>> (the two concatenated       *)
(*     parts of generateId); null is the empty tuple.                      *)
(*   - Date.now() is the variable now.  The clock never runs backwards,    *)
(*     and it has advanced when a createMedia timer fires (500 ms after    *)
(*     it was set).  The model keeps the least such clock: now advances    *)
(*     only when a createMedia timer fires, to just past the time the      *)
(*     timer was set at, so that two readings are equal whenever the       *)
(*     timers allow them to be.                                            *)
(***************************************************************************)
EXTENDS Integers, Sequences, FiniteSets, TLC

VARIABLES
    mediaItems,      \* AppState.mediaItems
    currentEditId,   \* AppState.currentEditId
    isLoading,       \* AppState.isLoading
    localStorage,    \* the two keys of window.localStorage
    now,             \* Date.now()
    timers,          \* the setTimeout callbacks waiting, in the order they were set
    gallery,         \* the records of the cards in DOM.galleryContainer
    booted,          \* the DOMContentLoaded handler has run
    failures         \* how many times localStorage.setItem has thrown

vars == <<mediaItems, currentEditId, isLoading, localStorage, now, timers,
          gallery, booted, failures>>

(* ------------------------------ bounds -------------------------------- *)

\* Date.now() takes the values 1..MaxTime.
MaxTime == 2

\* localStorage.setItem throws at most MaxFailures times.
MaxFailures == 1

\* At most MaxTimers setTimeout callbacks are waiting at a time.
MaxTimers == 2

(* ------------------------- program constants -------------------------- *)

MaxDescLen == 500
CreateDelay == 500
GetDelay == 200
UpdateDelay == 300
DeleteDelay == 300

storageKey == "mediamix_hub_data"
backupKey == "mediamix_hub_backup"

Null == <<>>

(* ------------------------------ strings ------------------------------- *)

Run(c, n) == <<[c |-> c, n |-> n]>>

RECURSIVE StrLen(_)
StrLen(s) == IF s = <<>> THEN 0 ELSE Head(s).n + StrLen(Tail(s))

IsSpace(c) == c = " "

RECURSIVE TrimStart(_)
TrimStart(s) ==
    IF s # <<>> /\ IsSpace(Head(s).c) THEN TrimStart(Tail(s)) ELSE s

RECURSIVE TrimEnd(_)
TrimEnd(s) ==
    IF s # <<>> /\ IsSpace(s[Len(s)].c)
    THEN TrimEnd(SubSeq(s, 1, Len(s) - 1))
    ELSE s

\* String.prototype.trim
Trim(s) == TrimEnd(TrimStart(s))

(* ------------------------------- Utils -------------------------------- *)

\* generateId without its Date.now() part.
generateIdNoTime(t, r) == <<0>> \o <<r>>

\* Date.now().toString(36) + Math.random().toString(36).substr(2)
generateId(t, r) == <<t>> \o <<r>>

Mime(major, sub) == [major |-> major, sub |-> sub]

StartsWith(mimeType, major) == mimeType.major = major

getFileType(mimeType) ==
    IF StartsWith(mimeType, "image") THEN "image"
    ELSE IF StartsWith(mimeType, "video") THEN "video"
    ELSE IF StartsWith(mimeType, "audio") THEN "audio"
    ELSE "unknown"

validTypes ==
    { Mime("image", "jpeg"), Mime("image", "png"), Mime("image", "gif"),
      Mime("image", "webp"),
      Mime("video", "mp4"), Mime("video", "webm"), Mime("video", "ogg"),
      Mime("audio", "mp3"), Mime("audio", "wav"), Mime("audio", "ogg"),
      Mime("audio", "mpeg") }

isValidFileType(file) == file.type \in validTypes

(* -------------------------------- JSON -------------------------------- *)

JStr(v) == [j |-> "str", v |-> v]
JNum(v) == [j |-> "num", v |-> v]
JArr(elems) == [j |-> "arr", elems |-> elems]
JObj(members) == [j |-> "obj", members |-> members]
JNull == [j |-> "null"]
Undefined == [j |-> "undefined"]
EmptyText == [j |-> "empty"]
BadText == [j |-> "bad"]

\* A serialisation that loses the description.
ItemKeysNoDescription ==
    <<"id", "fileName", "uploadDate", "fileType", "fileSize">>

\* The keys of a media item, in the order createMedia writes them
\* (JSON.stringify keeps that order; the spread of updateMedia keeps it too).
ItemKeys ==
    <<"id", "fileName", "description", "uploadDate", "fileType", "fileSize">>

NumKeys == {"fileSize"}

InSeq(x, s) == \E i \in DOMAIN s : s[i] = x

StringifyItem(item) ==
    LET keys == SelectSeq(ItemKeys, LAMBDA k : k \in DOMAIN item)
    IN  JObj([i \in DOMAIN keys |->
                <<keys[i], IF keys[i] \in NumKeys THEN JNum(item[keys[i]])
                           ELSE JStr(item[keys[i]])>>])

\* JSON.stringify({mediaItems, lastUpdated, version})
Stringify(data) ==
    JObj(<< <<"mediaItems",
              JArr([i \in DOMAIN data.mediaItems |->
                       StringifyItem(data.mediaItems[i])])>>,
            <<"lastUpdated", JStr(data.lastUpdated)>>,
            <<"version", JStr(data.version)>> >>)

\* JSON.parse raises a SyntaxError on a text that is no JSON.
ParseThrows(text) == text.j \in {"bad", "empty"}

\* obj.key of a parsed value: undefined unless obj is an object with that key.
Prop(tree, key) ==
    IF tree.j = "obj" /\ \E i \in DOMAIN tree.members : tree.members[i][1] = key
    THEN LET i == CHOOSE i \in DOMAIN tree.members :
                      /\ tree.members[i][1] = key
                      /\ \A k \in DOMAIN tree.members :
                            tree.members[k][1] = key => k <= i
         IN  tree.members[i][2]
    ELSE Undefined

Truthy(tree) ==
    \/ tree.j \in {"obj", "arr"}
    \/ tree.j = "num" /\ tree.v # 0
    \/ tree.j = "str" /\ tree.v # ""

\* The JavaScript value a parsed tree stands for.
RECURSIVE ToJs(_)
ToJs(tree) ==
    CASE tree.j = "obj" ->
            [k \in {tree.members[i][1] : i \in DOMAIN tree.members} |->
                ToJs(Prop(tree, k))]
      [] tree.j = "arr" -> [i \in DOMAIN tree.elems |-> ToJs(tree.elems[i])]
      [] tree.j \in {"str", "num"} -> tree.v
      [] OTHER -> Null

(* ---------------------------- localStorage ---------------------------- *)

Absent == [kind |-> "absent"]
Unreadable == [kind |-> "unreadable"]
Stored(text) == [kind |-> "string", text |-> text]

\* { mediaItems: [], version: '1.0' }
DefaultData == JObj(<< <<"mediaItems", JArr(<<>>)>>, <<"version", JStr("1.0")>> >>)

\* An arm of loadFromStorage that takes a failed read or parse for no data.
ReadSlotNoThrow(slot) ==
    IF slot.kind = "string" /\ slot.text.j \notin {"empty", "bad"}
    THEN [threw |-> FALSE, value |-> slot.text]
    ELSE [threw |-> FALSE, value |-> DefaultData]

\* One arm of loadFromStorage:
\*   const data = localStorage.getItem(key);
\*   return data ? JSON.parse(data) : { mediaItems: [], version: '1.0' };
ReadSlot(slot) ==
    IF slot.kind = "unreadable" THEN [threw |-> TRUE, value |-> Undefined]
    ELSE IF slot.kind = "absent" \/ slot.text.j = "empty"
         THEN [threw |-> FALSE, value |-> DefaultData]
    ELSE IF ParseThrows(slot.text) THEN [threw |-> TRUE, value |-> Undefined]
    ELSE [threw |-> FALSE, value |-> slot.text]

loadFromStorage(ls) ==
    IF ~ReadSlot(ls[storageKey]).threw THEN ReadSlot(ls[storageKey]).value
    ELSE IF ~ReadSlot(ls[backupKey]).threw THEN ReadSlot(ls[backupKey]).value
    ELSE DefaultData

\* The catalog that init() leaves in AppState.mediaItems:
\*   data.mediaItems || []   and, when that throws (data is null), [].
InitItems(ls) ==
    LET data == loadFromStorage(ls)
    IN  IF data.j = "null" THEN <<>>
        ELSE IF Truthy(Prop(data, "mediaItems"))
             THEN ToJs(Prop(data, "mediaItems"))
             ELSE <<>>

\* How a saveToStorage call can end: both setItem calls succeed, the first
\* throws, or the first succeeds and the second throws.
SaveOutcomes == {"ok", "failPrimary", "failBackup"}

saveToStorage(ls, data, outcome) ==
    LET dataString == Stored(Stringify(data))
    IN  CASE outcome = "ok" ->
               [ls EXCEPT ![storageKey] = dataString, ![backupKey] = dataString]
          [] outcome = "failPrimary" -> ls
          [] outcome = "failBackup" -> [ls EXCEPT ![storageKey] = dataString]

SaveThrew(outcome) == outcome # "ok"

\* The setItem calls of this run that throw.
Throws(outcome) ==
    /\ SaveThrew(outcome) => failures < MaxFailures
    /\ failures' = IF SaveThrew(outcome) THEN failures + 1 ELSE failures

Snapshot(items, t) == [mediaItems |-> items, lastUpdated |-> t, version |-> "1.0"]

(* ------------------------------- inputs ------------------------------- *)

NoFile == [none |-> TRUE]
NoData == [none |-> TRUE]

\* DOM.fileInput.files[0]: an accepted file, and a file whose declared type is
\* not in validTypes (NoFile: nothing is selected).
GoodFile == [name |-> "b.mp4", type |-> Mime("video", "mp4"), size |-> 4096]
BadFile == [name |-> "c.bmp", type |-> Mime("image", "bmp"), size |-> 10]

\* DOM.descriptionInput.value: blank, MaxDescLen characters between blanks,
\* and one character more than MaxDescLen.
BlankText == Run(" ", 2)
PaddedText == Run(" ", 1) \o Run("x", MaxDescLen) \o Run(" ", 1)
LongText == Run("x", MaxDescLen + 1)

\* The upload form when it is submitted: one input for each check of
\* handleUpload, and one that passes them all.
UploadForms ==
    { [file |-> NoFile, text |-> PaddedText],
      [file |-> BadFile, text |-> PaddedText],
      [file |-> GoodFile, text |-> BlankText],
      [file |-> GoodFile, text |-> LongText],
      [file |-> GoodFile, text |-> PaddedText] }

\* DOM.editDescriptionInput.value
EditTexts ==
    { <<>>,
      Run("x", MaxDescLen) \o Run(" ", 1),
      Run(" ", 1) \o Run("x", MaxDescLen + 1) }

\* Math.random().  Ids are only ever compared for equality, so the draws
\* that matter are the ones that coincide: every call returns the same digits.
Rnd == {0}

\* new Date().toISOString()
toISOString(t) == [iso |-> t]

(* ------------------------------ helpers ------------------------------- *)

RemoveAt(s, i) == [k \in 1 .. Len(s) - 1 |-> IF k < i THEN s[k] ELSE s[k + 1]]

\* item.id, undefined (never equal to an id) when the object has no id.
IdOf(item) == IF "id" \in DOMAIN item THEN item.id ELSE Null

Ids(items) == {IdOf(items[i]) : i \in DOMAIN items}

\* items.findIndex(item => item.id === id), 1-based; 0 stands for -1.
FindIndex(items, id) ==
    IF \E i \in DOMAIN items : IdOf(items[i]) = id
    THEN CHOOSE i \in DOMAIN items :
            /\ IdOf(items[i]) = id
            /\ \A k \in DOMAIN items : IdOf(items[k]) = id => i <= k
    ELSE 0

\* The record replaced by the updates instead of merged with them.
MergeReplace(old, updates) == updates

\* { ...old, ...updates }
Merge(old, updates) ==
    [k \in DOMAIN old \cup DOMAIN updates |->
        IF k \in DOMAIN updates THEN updates[k] ELSE old[k]]

\* A splice at the wrong place: the last record goes.
SpliceLast(items, index) == SubSeq(items, 1, Len(items) - 1)

\* AppState.mediaItems.splice(index, 1)
Splice(items, index) == RemoveAt(items, index)

\* [...AppState.mediaItems]
Copy(items) == [i \in DOMAIN items |-> items[i]]


\* A waiting setTimeout callback: the Store function it resumes, its delay,
\* the arguments of the call, and the handler that awaits it.  at is Date.now()
\* when the timer was set; it is kept for createMedia, the one callback that
\* reads the clock, and is 0 for the others.
Timer(fn, delay, at, id, data, from) ==
    [fn |-> fn, delay |-> delay, at |-> at, id |-> id, data |-> data,
     from |-> from]

\* A timer fires after every timer set earlier with a delay no longer than
\* its own.
CanFire(i) ==
    /\ i \in DOMAIN timers
    /\ \A k \in 1 .. i - 1 : timers[k].delay > timers[i].delay

(* --------------------------- initial state ---------------------------- *)

\* A record written by an earlier session (at time 0).
OldItem ==
    [id |-> generateId(0, 0), fileName |-> "a.png", description |-> Run("d", 3),
     uploadDate |-> toISOString(0), fileType |-> "image", fileSize |-> 2048]

OldSnapshot == Stored(Stringify(Snapshot(<<OldItem>>, toISOString(0))))

Slots(p, b) == [k \in {storageKey, backupKey} |-> IF k = storageKey THEN p ELSE b]

InitRest ==
    /\ mediaItems = <<>>
    /\ currentEditId = Null
    /\ isLoading = FALSE
    /\ now = 1
    /\ timers = <<>>
    /\ gallery = <<>>
    /\ booted = FALSE
    /\ failures = 0

\* First run (nothing stored) or a later run over what the program stored.
Init ==
    /\ localStorage \in {Slots(Absent, Absent), Slots(OldSnapshot, OldSnapshot)}
    /\ InitRest

(* ------------------------------ actions ------------------------------- *)

\* document 'DOMContentLoaded': listeners, mockAPI.init(), renderGallery().
DOMContentLoaded ==
    /\ ~booted
    /\ booted' = TRUE
    /\ mediaItems' = InitItems(localStorage)
    /\ timers' = Append(timers, Timer("getMedia", GetDelay, 0, Null, NoData, "boot"))
    /\ UNCHANGED <<currentEditId, isLoading, localStorage, now, gallery, failures>>

\* The validation of handleUpload without its length check.
UploadRejectionNoLimit(file, description) ==
    IF "none" \in DOMAIN file THEN "Please select a file to upload."
    ELSE IF ~isValidFileType(file)
         THEN "Invalid file type. Please select an image, video, or audio file."
    ELSE IF description = <<>> THEN "Please enter a description for your media."
    ELSE ""

\* The validation of handleUpload, in the order of its checks: the message
\* shown, or "" when the input passes.
UploadRejection(file, description) ==
    IF "none" \in DOMAIN file THEN "Please select a file to upload."
    ELSE IF ~isValidFileType(file)
         THEN "Invalid file type. Please select an image, video, or audio file."
    ELSE IF description = <<>> THEN "Please enter a description for your media."
    ELSE IF StrLen(description) > MaxDescLen
         THEN "Description must be 500 characters or less."
    ELSE ""

\* An upload handler that does not look at isLoading.
UploadBusyNever == FALSE

\* if (AppState.isLoading) return;
UploadBusy == isLoading

\* The submit of the upload form, up to the await of createMedia.
handleUpload(file, text) ==
    LET description == Trim(text)
    IN  /\ booted
        /\ IF UploadBusy \/ UploadRejection(file, description) # ""
           THEN UNCHANGED <<isLoading, timers>>
           ELSE /\ Len(timers) < MaxTimers
                /\ now < MaxTime
                /\ isLoading' = TRUE
                /\ timers' = Append(timers,
                      Timer("createMedia", CreateDelay, now, Null,
                            [fileName |-> file.name, description |-> description,
                             fileType |-> getFileType(file.type),
                             fileSize |-> file.size],
                            "handleUpload"))
        /\ UNCHANGED <<mediaItems, currentEditId, localStorage, now, gallery,
                       booted, failures>>

\* Date.now() when a timer set at time `at` with a positive delay fires.
Later(at) == IF now > at THEN now ELSE at + 1

\* How createMedia ends for its caller.
createMediaResult(outcome) ==
    IF SaveThrew(outcome) THEN "StorageUnavailable" ELSE "ok"

\* The timer of createMedia fires: the rest of createMedia, then the rest of
\* handleUpload up to its next await (or through catch and finally).
createMedia(i, r, outcome) ==
    LET mediaData == timers[i].data
        t == Later(timers[i].at)
        mediaItem ==
            [id |-> generateId(t, r),
             fileName |-> mediaData.fileName,
             description |-> mediaData.description,
             uploadDate |-> toISOString(t),
             fileType |-> mediaData.fileType,
             fileSize |-> mediaData.fileSize]
        pushed == Append(mediaItems, mediaItem)
    IN  /\ CanFire(i)
        /\ timers[i].fn = "createMedia"
        /\ Throws(outcome)
        /\ now' = t
        /\ mediaItems' = pushed
        /\ localStorage' =
              saveToStorage(localStorage, Snapshot(pushed, toISOString(t)), outcome)
        /\ IF createMediaResult(outcome) = "ok"
           THEN /\ timers' = Append(RemoveAt(timers, i),
                      Timer("getMedia", GetDelay, 0, mediaItem.id, NoData,
                            "handleUpload"))
                /\ UNCHANGED isLoading
           ELSE /\ isLoading' = FALSE
                /\ timers' = RemoveAt(timers, i)
        /\ UNCHANGED <<currentEditId, gallery, booted>>

\* The timer of getMedia fires: the rest of renderGallery, then the rest of
\* the handler that awaited it.
getMedia(i) ==
    /\ CanFire(i)
    /\ timers[i].fn = "getMedia"
    /\ gallery' = Copy(mediaItems)
    /\ timers' = RemoveAt(timers, i)
    /\ isLoading' = IF timers[i].from = "handleUpload" THEN FALSE ELSE isLoading
    /\ UNCHANGED <<mediaItems, currentEditId, localStorage, now, booted, failures>>

\* The validation of handleSaveEdit: the message shown, or "".
EditRejection(newDescription) ==
    IF newDescription = <<>> THEN "Description cannot be empty."
    ELSE IF StrLen(newDescription) > MaxDescLen
         THEN "Description must be 500 characters or less."
    ELSE ""

\* The click on Save in the edit modal, up to the await of updateMedia.
handleSaveEdit(text) ==
    LET newDescription == Trim(text)
    IN  /\ booted
        /\ IF currentEditId = Null \/ EditRejection(newDescription) # ""
           THEN UNCHANGED timers
           ELSE /\ Len(timers) < MaxTimers
                /\ timers' = Append(timers,
                      Timer("updateMedia", UpdateDelay, 0, currentEditId,
                            [description |-> newDescription], "handleSaveEdit"))
        /\ UNCHANGED <<mediaItems, currentEditId, isLoading, localStorage, now,
                       gallery, booted, failures>>

\* A closeEditModal that leaves the slot as it is.
closeEditModalKeep == currentEditId

\* AppState.currentEditId = null (the modal is hidden, its input cleared).
closeEditModal == Null

\* How updateMedia(id, updates) ends for its caller.
updateMediaResult(id, outcome) ==
    IF FindIndex(mediaItems, id) = 0 THEN "NotFound"
    ELSE IF SaveThrew(outcome) THEN "StorageUnavailable"
    ELSE "ok"

\* The timer of updateMedia fires: the rest of updateMedia, then the rest of
\* handleSaveEdit up to its next await (or its catch).
updateMedia(i, outcome) ==
    LET id == timers[i].id
        index == FindIndex(mediaItems, id)
        merged == [mediaItems EXCEPT ![index] = Merge(@, timers[i].data)]
        result == updateMediaResult(id, outcome)
    IN  /\ CanFire(i)
        /\ timers[i].fn = "updateMedia"
        /\ IF result = "NotFound"
           THEN UNCHANGED <<mediaItems, localStorage, failures>>
           ELSE /\ Throws(outcome)
                /\ mediaItems' = merged
                /\ localStorage' =
                      saveToStorage(localStorage, Snapshot(merged, toISOString(now)),
                                    outcome)
        /\ IF result = "ok"
           THEN /\ currentEditId' = closeEditModal
                /\ timers' = Append(RemoveAt(timers, i),
                      Timer("getMedia", GetDelay, 0, Null, NoData, "handleSaveEdit"))
           ELSE /\ timers' = RemoveAt(timers, i)
                /\ UNCHANGED currentEditId
        /\ UNCHANGED <<isLoading, now, gallery, booted>>

\* A click on the Delete button of a rendered card and the answer to
\* confirm(), up to the await of deleteMedia.
handleDelete(id, confirmed) ==
    /\ booted
    /\ id \in Ids(gallery)
    /\ IF FindIndex(mediaItems, id) = 0 \/ ~confirmed
       THEN UNCHANGED timers
       ELSE /\ Len(timers) < MaxTimers
            /\ timers' = Append(timers,
                  Timer("deleteMedia", DeleteDelay, 0, id, NoData, "handleDelete"))
    /\ UNCHANGED <<mediaItems, currentEditId, isLoading, localStorage, now,
                   gallery, booted, failures>>

\* How deleteMedia(id) ends for its caller.
deleteMediaResult(id, outcome) ==
    IF FindIndex(mediaItems, id) = 0 THEN "NotFound"
    ELSE IF SaveThrew(outcome) THEN "StorageUnavailable"
    ELSE "ok"

\* The timer of deleteMedia fires: the rest of deleteMedia, then the rest of
\* handleDelete up to its next await (or its catch).
deleteMedia(i, outcome) ==
    LET id == timers[i].id
        index == FindIndex(mediaItems, id)
        spliced == Splice(mediaItems, index)
        result == deleteMediaResult(id, outcome)
    IN  /\ CanFire(i)
        /\ timers[i].fn = "deleteMedia"
        /\ IF result = "NotFound"
           THEN UNCHANGED <<mediaItems, localStorage, failures>>
           ELSE /\ Throws(outcome)
                /\ mediaItems' = spliced
                /\ localStorage' =
                      saveToStorage(localStorage, Snapshot(spliced, toISOString(now)),
                                    outcome)
        /\ IF result = "ok"
           THEN timers' = Append(RemoveAt(timers, i),
                    Timer("getMedia", GetDelay, 0, Null, NoData, "handleDelete"))
           ELSE timers' = RemoveAt(timers, i)
        /\ UNCHANGED <<currentEditId, isLoading, now, gallery, booted>>

\* A click on the Edit button of a rendered card.
openEditModal(id) ==
    /\ booted
    /\ id \in Ids(gallery)
    /\ IF FindIndex(mediaItems, id) = 0
       THEN UNCHANGED currentEditId
       ELSE currentEditId' = id
    /\ UNCHANGED <<mediaItems, isLoading, localStorage, now, timers, gallery,
                   booted, failures>>

\* The close button, the Cancel button, the overlay or Escape, while the
\* modal is shown.
cancelEdit ==
    /\ booted
    /\ currentEditId # Null
    /\ currentEditId' = closeEditModal
    /\ UNCHANGED <<mediaItems, isLoading, localStorage, now, timers, gallery,
                   booted, failures>>

Next ==
    \/ DOMContentLoaded
    \/ \E form \in UploadForms : handleUpload(form.file, form.text)
    \/ \E i \in DOMAIN timers, r \in Rnd, outcome \in SaveOutcomes :
          createMedia(i, r, outcome)
    \/ \E i \in DOMAIN timers : getMedia(i)
    \/ \E text \in EditTexts : handleSaveEdit(text)
    \/ \E i \in DOMAIN timers, outcome \in SaveOutcomes : updateMedia(i, outcome)
    \/ \E id \in Ids(gallery), confirmed \in BOOLEAN : handleDelete(id, confirmed)
    \/ \E i \in DOMAIN timers, outcome \in SaveOutcomes : deleteMedia(i, outcome)
    \/ \E id \in Ids(gallery) : openEditModal(id)
    \/ cancelEdit

Spec == Init /\ [][Next]_vars

(* ------------------- init over any content of the slots ---------------- *)

NewItem ==
    [id |-> generateId(1, 0), fileName |-> "b.mp4",
     description |-> Run("x", MaxDescLen), uploadDate |-> toISOString(1),
     fileType |-> "video", fileSize |-> 4096]

\* The catalogs of the valid snapshots the slots are drawn from.
SnapshotCatalogs == {<<>>, <<OldItem>>, <<NewItem, OldItem>>}

ValidSnapshots ==
    {Stored(Stringify(Snapshot(items, toISOString(1)))) : items \in SnapshotCatalogs}

\* '{"mediaItems":[{"junk":1}]}': JSON, but no snapshot.
JunkItems ==
    Stored(JObj(<< <<"mediaItems", JArr(<<JObj(<< <<"junk", JNum(1)>> >>)>>)>> >>))

\* What a slot can hold: nothing, a value that cannot be read, the empty
\* string, a text that is no JSON, JSON that is no snapshot ('null', '{}',
\* and a mediaItems array of something else), or a valid snapshot.
SlotContents ==
    {Absent, Unreadable, Stored(EmptyText), Stored(BadText), Stored(JNull),
     Stored(JObj(<<>>)), JunkItems} \cup ValidSnapshots

InitAny ==
    /\ localStorage \in {Slots(p, b) : p \in SlotContents, b \in SlotContents}
    /\ InitRest

SpecInit == InitAny /\ [][DOMContentLoaded]_vars

(* ----------------------------- properties ----------------------------- *)

DistinctIds(items) ==
    \A i, k \in DOMAIN items : i # k => IdOf(items[i]) # IdOf(items[k])

Occurrences(items, id) == Cardinality({i \in DOMAIN items : IdOf(items[i]) = id})

EndsWith(items, id) == items # <<>> /\ IdOf(items[Len(items)]) = id

\* The step is createMedia returning a record: the record's id.
CreateReturns(id) ==
    \E i \in DOMAIN timers, r \in Rnd :
        /\ createMedia(i, r, "ok")
        /\ id = generateId(Later(timers[i].at), r)

\* The step is the list that handleUpload issues once its create has returned id.
ListAfterCreate(id) ==
    \E i \in DOMAIN timers :
        /\ getMedia(i)
        /\ timers[i].from = "handleUpload"
        /\ id = timers[i].id

C2_UpdateFrame ==
    [][\A i \in DOMAIN timers, outcome \in SaveOutcomes :
          (updateMedia(i, outcome) /\ timers[i].id \in Ids(mediaItems)) =>
             \E k \in DOMAIN mediaItems :
                /\ mediaItems[k].id = timers[i].id
                /\ Copy(mediaItems') =
                      [mediaItems EXCEPT ![k].description = timers[i].data.description]
                /\ DOMAIN mediaItems'[k] = DOMAIN mediaItems[k]]_vars

\* The older record's description has been replaced, beside a second record.
C2_Witness ==
    /\ Len(mediaItems) = 2
    /\ mediaItems[1] = [OldItem EXCEPT !.description = Run("x", MaxDescLen)]
    /\ mediaItems[2].id # OldItem.id

\* C3: a delete(id) that succeeds removes the record with that id and keeps
\* the other records in their order; an id that has left the Catalog never
\* comes back (every id that enters after init is later than the clock, every
\* id present is not); and a delete(id) of an id not in the Catalog fails with
\* NotFound and changes neither the Catalog nor a storage slot.
C3_Delete ==
    /\ [](\A id \in Ids(mediaItems) \cup Ids(gallery) : id[1] <= now)
    /\ [][/\ booted => \A id \in Ids(mediaItems') \ Ids(mediaItems) : id[1] > now
          /\ \A i \in DOMAIN timers, outcome \in SaveOutcomes :
                deleteMedia(i, outcome) =>
                   LET id == timers[i].id
                   IN  IF id \in Ids(mediaItems)
                       THEN /\ deleteMediaResult(id, outcome) # "NotFound"
                            /\ id \notin Ids(mediaItems')
                            /\ mediaItems' =
                                  SelectSeq(mediaItems, LAMBDA item : item.id # id)
                       ELSE /\ deleteMediaResult(id, outcome) = "NotFound"
                            /\ UNCHANGED <<mediaItems, localStorage>>]_vars

\* A first delete(id) has removed the record, the list still shows it next
\* to another record, and a second delete(id) is waiting.
C3_Witness ==
    \E i \in DOMAIN timers :
        /\ timers[i].fn = "deleteMedia"
        /\ timers[i].id \notin Ids(mediaItems)
        /\ timers[i].id \in Ids(gallery)
        /\ Len(gallery) = 2
        /\ Len(mediaItems) = 1

\* C4: while every create, update and delete so far has succeeded in writing,
\* init over the two slots yields the Catalog in memory: the same records,
\* field by field, in the same order.
C4_RoundTrip ==
    (booted /\ failures = 0) => InitItems(localStorage) = mediaItems

\* A create and an update have been persisted.
C4_Witness ==
    /\ booted
    /\ failures = 0
    /\ Len(mediaItems) = 2
    /\ mediaItems[1] = [OldItem EXCEPT !.description = Run("x", MaxDescLen)]
    /\ localStorage[storageKey] =
          Stored(Stringify(Snapshot(mediaItems, toISOString(now))))

\* Reading the slot, or parsing what was read, raises an error.
Corrupted(slot) == slot = Unreadable \/ slot = Stored(BadText)

IsMediaRecord(item) == DOMAIN item = {ItemKeys[i] : i \in DOMAIN ItemKeys}

\* C6: whatever the two slots hold, init leaves the Catalog a sequence of
\* MediaRecords.
C6_InitLeavesValidCatalog ==
    booted => \A i \in DOMAIN mediaItems : IsMediaRecord(mediaItems[i])

\* The step is a create, update or delete that fails on its write.
WriteFails ==
    \/ \E i \in DOMAIN timers, r \in Rnd, outcome \in SaveOutcomes :
          createMedia(i, r, outcome) /\ createMediaResult(outcome) = "StorageUnavailable"
    \/ \E i \in DOMAIN timers, outcome \in SaveOutcomes :
          /\ updateMedia(i, outcome)
          /\ updateMediaResult(timers[i].id, outcome) = "StorageUnavailable"
    \/ \E i \in DOMAIN timers, outcome \in SaveOutcomes :
          /\ deleteMedia(i, outcome)
          /\ deleteMediaResult(timers[i].id, outcome) = "StorageUnavailable"

\* C7: a create, update or delete whose persistence write fails leaves the
\* Catalog in memory as it was before the operation.
C7_Atomic == [][WriteFails => mediaItems' = mediaItems]_vars

\* The step is a create, update or delete that reaches its write.
Writes ==
    \/ \E i \in DOMAIN timers, r \in Rnd, outcome \in SaveOutcomes :
          createMedia(i, r, outcome)
    \/ \E i \in DOMAIN timers, outcome \in SaveOutcomes :
          /\ updateMedia(i, outcome)
          /\ updateMediaResult(timers[i].id, outcome) # "NotFound"
    \/ \E i \in DOMAIN timers, outcome \in SaveOutcomes :
          /\ deleteMedia(i, outcome)
          /\ deleteMediaResult(timers[i].id, outcome) # "NotFound"

\* C8: when a create, update or delete has finished, its write done or
\* failed, the primary slot and the backup slot hold the same snapshot.
C8_SlotsIdentical ==
    [][Writes => localStorage'[storageKey] = localStorage'[backupKey]]_vars

\* The file part of the upload rule: a file is selected and its declared type
\* is in the accepted list.
FileAccepted(file) == "none" \notin DOMAIN file /\ file.type \in validTypes

\* C9 as stated: handleUpload calls create only when a file of an accepted
\* type is selected and the entered text is non-empty and at most 500
\* characters, and handleSaveEdit calls update only under the same rule on
\* the entered text.
C9_GateOnEnteredText ==
    [][/\ \A form \in UploadForms :
             (handleUpload(form.file, form.text) /\ timers' # timers) =>
                /\ FileAccepted(form.file)
                /\ StrLen(form.text) >= 1
                /\ StrLen(form.text) <= MaxDescLen
       /\ \A text \in EditTexts :
             (handleSaveEdit(text) /\ timers' # timers) =>
                StrLen(text) >= 1 /\ StrLen(text) <= MaxDescLen]_vars

\* The description rule on the text as the handlers read it: trimmed of
\* leading and trailing white space, it has 1 to 500 characters.
TextAccepted(text) ==
    StrLen(Trim(text)) >= 1 /\ StrLen(Trim(text)) <= MaxDescLen

\* C9, amended: handleUpload calls create only when a file of an accepted
\* type is selected and the entered text, trimmed, has 1 to 500 characters
\* (500 pass, 501 do not), and then with the trimmed text; handleSaveEdit
\* calls update only under the same rule on the trimmed text; a handler whose
\* validation fails sets no timer (issues no Store call) and leaves the
\* Catalog and both storage slots as they are.
C9_ValidationGate ==
    [][/\ \A form \in UploadForms :
             handleUpload(form.file, form.text) =>
                IF FileAccepted(form.file) /\ TextAccepted(form.text)
                THEN timers' # timers =>
                        /\ timers'[Len(timers')].fn = "createMedia"
                        /\ StrLen(timers'[Len(timers')].data.description)
                              \in 1 .. MaxDescLen
                ELSE UNCHANGED <<timers, mediaItems, localStorage>>
       /\ \A text \in EditTexts :
             handleSaveEdit(text) =>
                IF TextAccepted(text)
                THEN timers' # timers =>
                        /\ timers'[Len(timers')].fn = "updateMedia"
                        /\ StrLen(timers'[Len(timers')].data.description)
                              \in 1 .. MaxDescLen
                ELSE UNCHANGED <<timers, mediaItems, localStorage>>]_vars

\* An upload and an edit, each of exactly 500 characters once trimmed, have
\* passed the gate: their Store calls are waiting.
C9_Witness ==
    /\ Len(timers) = 2
    /\ timers[1].fn = "createMedia"
    /\ StrLen(timers[1].data.description) = MaxDescLen
    /\ timers[2].fn = "updateMedia"
    /\ StrLen(timers[2].data.description) = MaxDescLen

\* The step is a save of the edit that succeeds.
SaveSucceeds ==
    \E i \in DOMAIN timers :
        updateMedia(i, "ok") /\ updateMediaResult(timers[i].id, "ok") = "ok"

\* The step is a save of the edit that fails in the Store.
SaveFails ==
    \E i \in DOMAIN timers, outcome \in SaveOutcomes :
        updateMedia(i, outcome) /\ updateMediaResult(timers[i].id, outcome) # "ok"

\* C10: the edit slot changes only to an id of the Catalog on edit-open
\* (from Idle or from another id), and to Idle on cancel or on a save that
\* succeeds; a save that succeeds leaves it Idle, and a save that fails or is
\* rejected leaves it as it was.
C10_EditSlot ==
    [][/\ currentEditId' # currentEditId =>
             \/ /\ \E id \in Ids(gallery) : openEditModal(id) /\ currentEditId' = id
                /\ currentEditId' \in Ids(mediaItems)
             \/ cancelEdit /\ currentEditId # Null /\ currentEditId' = Null
             \/ SaveSucceeds /\ currentEditId # Null /\ currentEditId' = Null
       /\ SaveSucceeds => currentEditId' = Null
       /\ SaveFails => currentEditId' = currentEditId
       /\ \A text \in EditTexts : handleSaveEdit(text) => currentEditId' = currentEditId
      ]_vars

\* A save has succeeded and its re-list is waiting: the slot is back at Idle,
\* and the saved description is in the Catalog.
C10_Witness ==
    /\ currentEditId = Null
    /\ \E i \in DOMAIN timers :
          timers[i].fn = "getMedia" /\ timers[i].from = "handleSaveEdit"
    /\ \E k \in DOMAIN mediaItems :
          mediaItems[k] = [OldItem EXCEPT !.description = Run("x", MaxDescLen)]

\* Every Store call issued and every re-list triggered has completed.
Quiescent == booted /\ timers = <<>>

\* C11: once every issued Store operation and every triggered re-list has
\* completed, the list last rendered equals the Catalog: the same records in
\* the same order.
C11_GalleryMatchesCatalog == Quiescent => gallery = mediaItems

\* C12: whenever the edit slot holds an id, a record with that id is in the
\* Catalog, also while a delete is waiting out its latency.
C12_EditSlotInCatalog ==
    currentEditId # Null => currentEditId \in Ids(mediaItems)

CreatesInFlight == {i \in DOMAIN timers : timers[i].fn = "createMedia"}

\* The re-lists that an upload handler is waiting for.
UploadRelists ==
    {i \in DOMAIN timers :
        timers[i].fn = "getMedia" /\ timers[i].from = "handleUpload"}

\* C13 as stated: isLoading is false as soon as the create of an upload has
\* completed, whether it succeeded or failed.
C13_IdleWhenCreateReturns ==
    [][\A i \in DOMAIN timers, r \in Rnd, outcome \in SaveOutcomes :
          createMedia(i, r, outcome) => isLoading' = FALSE]_vars

\* C13, amended: at most one create issued by handleUpload is in flight; an
\* upload submitted while isLoading is true issues no Store call and changes
\* neither the Catalog nor a slot; isLoading is true exactly while the create
\* or the re-list that follows it is waiting: it is false again when a create
\* that failed returns, and, after a create that succeeded, when its re-list
\* has completed.
C13_OneCreateInFlight ==
    /\ [](Cardinality(CreatesInFlight) + Cardinality(UploadRelists) <= 1)
    /\ [](isLoading <=> (CreatesInFlight \cup UploadRelists) # {})
    /\ [][/\ \A form \in UploadForms :
                (isLoading /\ handleUpload(form.file, form.text)) =>
                   UNCHANGED <<timers, mediaItems, localStorage, isLoading>>
          /\ \A i \in DOMAIN timers, r \in Rnd, outcome \in SaveOutcomes :
                createMedia(i, r, outcome) =>
                   isLoading' = (createMediaResult(outcome) = "ok")
          /\ \A i \in DOMAIN timers :
                (getMedia(i) /\ timers[i].from = "handleUpload") =>
                   isLoading' = FALSE]_vars

\* A create has succeeded and its re-list is waiting: isLoading is still
\* true, the new record is in the Catalog and not yet in the rendered list.
C13_Witness ==
    /\ isLoading
    /\ CreatesInFlight = {}
    /\ UploadRelists # {}
    /\ Len(mediaItems) = Len(gallery) + 1

====
